---- MODULE Spec2Model ----
(***************************************************************************)
(* BlueBrainSearch: the multiprocessing embedder (MPEmbedder), the batch   *)
(* embedding routine compute_database_embeddings and their helpers, as a   *)
(* state machine translated from src/src/bluesearch/embedding_models.py.  *)
(*                                                                         *)
(* Encodings.  A numpy 1-D array is a sequence.  Python positions are      *)
(* 0-based, the sequences here 1-based: position p of the code is p+1.     *)
(* Python None for an int is the empty sequence <<>>, an int g is <<g>>.   *)
(* An embedding has dim 1: a row of the embeddings dataset is one integer. *)
(* Worker process_ix of the code (0-based) is worker process_ix+1.         *)
(***************************************************************************)
EXTENDS Integers, Sequences, FiniteSets, TLC

\* ---------------------------------------------------------------- bounds
MaxLen == 4        \* longest `indices` array
MaxProc == 2       \* largest n_processes
MaxBatch == 2      \* largest batch_size_inference
MaxTransfer == 2   \* largest batch_size_transfer
MaxRows == 5       \* most rows the sentence store returns to one call
MaxBatchSize == 3  \* largest batch_size of compute_database_embeddings

VARIABLES
    pc,                    \* the parent's position in __init__ / do_embedding
    indices,               \* self.indices
    n_processes,           \* self.n_processes
    batch_size_inference,  \* self.batch_size_inference
    delete_temp,           \* self.delete_temp
    gpus,                  \* the gpus argument: [given, list]
    splits,                \* do_embedding's local `splits`
    h5_paths_temp,         \* do_embedding's local `h5_paths_temp` (worker numbers)
    joined,                \* number of worker processes joined so far
    consumed,              \* number of temp files H5.concatenate has consumed
    workers,               \* worker processes: position, kwargs, environment
    temp,                  \* the temp files <stem>_temp<i>.h5
    out,                   \* the output file h5_path_output
    cde,                   \* one call of compute_database_embeddings
    widget,                \* a MiningWidget, its server and its user
    gem,                   \* one call of get_embedding_model
    cli,                   \* one run of the `parse` command
    ner                    \* one run of the NER evaluation script

vars == <<pc, indices, n_processes, batch_size_inference, delete_temp, gpus,
          splits, h5_paths_temp, joined, consumed, workers, temp, out, cde,
          widget, gem, cli, ner>>

\* The variables of the components other than the embedder and
\* compute_database_embeddings.
auxVars == <<widget, gem, cli, ner>>

\* The value of a component's variable in a specification without it.
Off == [pc |-> "off"]

mpVars == <<pc, indices, n_processes, batch_size_inference, delete_temp, gpus,
            splits, h5_paths_temp, joined, consumed, workers, temp, out>>

\* ------------------------------------------------------- numpy helpers
Min(a, b) == IF a <= b THEN a ELSE b

\* np.arange(n), shifted to 1-based positions.
Arange(n) == [i \in 1..n |-> i]

\* Sections of total // sections rows each: the remainder is lost.
SectionStartTruncating(total, sections, k) == (k - 1) * (total \div sections) + 1

\* The first row of section k (1-based) of np.array_split(ary, sections):
\* the first `total % sections` sections have one more row than the others.
SectionStart(total, sections, k) ==
    LET each == total \div sections
        extras == total % sections
    IN  IF k <= extras
        THEN (k - 1) * (each + 1) + 1
        ELSE extras * (each + 1) + (k - 1 - extras) * each + 1

\* np.array_split(ary, sections) for an integer number of sections >= 1.
ArraySplit(ary, sections) ==
    [k \in 1..sections |->
        SubSeq(ary, SectionStart(Len(ary), sections, k),
                    SectionStart(Len(ary), sections, k + 1) - 1)]

\* [x for x in xs if len(x) > 0]
NonEmpty(xs) == SelectSeq(xs, LAMBDA x : Len(x) > 0)

\* indices[pos_indices] (numpy fancy indexing).
Take(ary, positions) == [k \in 1..Len(positions) |-> ary[positions[k]]]

\* The array `ary` with values[k] stored at row positions[k].
WriteRows(ary, values, positions) ==
    [p \in 1..Len(ary) |->
        IF \E k \in 1..Len(positions) : positions[k] = p
        THEN values[CHOOSE k \in 1..Len(positions) : positions[k] = p]
        ELSE ary[p]]

Range(s) == {s[k] : k \in 1..Len(s)}

\* All sequences without repetition over the set S.
RECURSIVE InjSeqs(_)
InjSeqs(S) ==
    {<<>>} \cup UNION {{<<x>> \o s : s \in InjSeqs(S \ {x})} : x \in S}

\* The `indices` arrays of the model: the ids 1..n in ascending order and in
\* descending order, n <= maxlen.
IndexArrays(maxlen) ==
    UNION {{Arange(n), [i \in 1..n |-> n + 1 - i]} : n \in 0..maxlen}

\* ------------------------------------------- the sentence store, the model
\* The text of sentence `id` in the `sentences` table.
Text(id) == id + 10

\* model.preprocess_many followed by model.embed_many: one embedding per
\* sentence, a function of the text alone (never 0, the fill of H5.create).
EmbedMany(texts) == [k \in 1..Len(texts) |-> 100 + texts[k]]

\* The embedding the model computes for sentence `id`.
EmbeddingOf(id) == EmbedMany(<<Text(id)>>)[1]

\* retrieve_sentences_from_sentence_ids: the rows of the requested ids that
\* the store holds, in the order the store chooses (rows are named by id).
RetrieveOutcomes(requested) == InjSeqs(Range(requested))

\* ------------------------------------------- compute_database_embeddings
\* np.concatenate(arrays, axis=0)
RECURSIVE Concatenate(_)
Concatenate(arrays) ==
    IF arrays = <<>> THEN <<>> ELSE Head(arrays) \o Concatenate(Tail(arrays))

\* A loop without the + 1: the last, shorter batch is never reached.
CdeIterationsShort(n_sentences, batch_size) == n_sentences \div batch_size

\* The number of iterations of `for batch_ix in range(n // batch_size + 1)`.
CdeIterations(n_sentences, batch_size) == (n_sentences \div batch_size) + 1

\* An iteration that puts the newest batch of embeddings first.
CdeBodyNewestFirst(st, sentences, batch_size, batch_ix) ==
    LET start_ix == batch_ix * batch_size
        end_ix == Min((batch_ix + 1) * batch_size, Len(sentences))
        sentences_id == SubSeq(sentences, start_ix + 1, end_ix)
        sentences_text == [k \in 1..Len(sentences_id) |-> Text(sentences_id[k])]
    IN  IF start_ix = end_ix
        THEN st
        ELSE [all_ids |-> st.all_ids \o sentences_id,
              all_embeddings |-> <<EmbedMany(sentences_text)>> \o st.all_embeddings,
              calls |-> Append(st.calls, sentences_text)]

\* One iteration of the loop: st = [all_ids, all_embeddings, calls], where
\* calls lists the arguments of model.embed_many so far.
CdeBody(st, sentences, batch_size, batch_ix) ==
    LET n_sentences == Len(sentences)
        start_ix == batch_ix * batch_size
        end_ix == Min((batch_ix + 1) * batch_size, n_sentences)
        sentences_id == SubSeq(sentences, start_ix + 1, end_ix)
        sentences_text == [k \in 1..Len(sentences_id) |-> Text(sentences_id[k])]
    IN  IF start_ix = end_ix
        THEN st
        ELSE [all_ids |-> st.all_ids \o sentences_id,
              all_embeddings |-> Append(st.all_embeddings, EmbedMany(sentences_text)),
              calls |-> Append(st.calls, sentences_text)]

CdeStart == [all_ids |-> <<>>, all_embeddings |-> <<>>, calls |-> <<>>]

RECURSIVE CdeLoop(_, _, _, _)
CdeLoop(st, sentences, batch_size, batch_ix) ==
    IF batch_ix >= CdeIterations(Len(sentences), batch_size)
    THEN st
    ELSE CdeLoop(CdeBody(st, sentences, batch_size, batch_ix),
                 sentences, batch_size, batch_ix + 1)

\* What the call returns once the loop is over; np.concatenate raises
\* ValueError on an empty list of arrays.
CdeResult(st) ==
    [raised |-> st.all_embeddings = <<>>,
     final_embeddings |-> Concatenate(st.all_embeddings),
     retrieved_indices |-> st.all_ids]

\* compute_database_embeddings on the rows `sentences` the store returned.
ComputeDatabaseEmbeddings(sentences, batch_size) ==
    CdeResult(CdeLoop(CdeStart, sentences, batch_size, 0))

\* ------------------------------------------------------ the H5 helper
\* A file that does not exist.
NoFile == [exists |-> FALSE, emb |-> <<>>, ids |-> <<>>]

\* A file left at a temp path by an earlier run.
StaleFile == [exists |-> TRUE, emb |-> <<EmbeddingOf(99)>>, ids |-> <<99>>]

Zeros(n) == [i \in 1..n |-> 0]

\* H5.create(path, dataset, shape=(n_rows, ...)): a zero-initialized dataset.
H5Create(file, dataset, n_rows) ==
    [file EXCEPT !.exists = TRUE, ![dataset] = Zeros(n_rows)]

\* H5.write(path, dataset, values, positions)
H5Write(file, dataset, values, positions) ==
    [file EXCEPT ![dataset] = WriteRows(@, values, positions)]

\* The rows of `rows` from row `from` on appended to `acc`, batch_size rows
\* at a time.
RECURSIVE TransferRows(_, _, _, _)
TransferRows(acc, rows, from, batch_size) ==
    IF from > Len(rows)
    THEN acc
    ELSE TransferRows(acc \o SubSeq(rows, from, Min(from + batch_size - 1, Len(rows))),
                      rows, from + batch_size, batch_size)

\* H5.concatenate, one input store: its dataset and its paired _indices
\* dataset are appended to the output store.
H5Append(output, input, batch_size) ==
    [exists |-> TRUE,
     emb |-> TransferRows(output.emb, input.emb, 1, batch_size),
     ids |-> TransferRows(output.ids, input.ids, 1, batch_size)]

\* ------------------------------------------------------ MPEmbedder
\* The `gpus` arguments of the model: None, or a list of 0..MaxProc+1
\* entries, entry i (0-based) being None or the device id i.
GpusArgs ==
    {[given |-> FALSE, list |-> <<>>]} \cup
    UNION {{[given |-> TRUE, list |-> g] :
                g \in {h \in [1..k -> {<<>>} \cup {<<d>> : d \in 0..(k - 1)}] :
                          \A i \in 1..k : h[i] \in {<<>>, <<i - 1>>}}} :
           k \in 0..(MaxProc + 1)}

\* A worker process that was not created.
NoWorker ==
    [pc |-> "none", err |-> "none", split_ix |-> 0,
     kw |-> [indices |-> <<>>, temp_h5_path |-> 0, batch_size |-> 0, gpu |-> <<>>],
     cuda_visible_devices |-> <<>>, device |-> "none"]

\* The temp paths before do_embedding: at most one holds a stale file.
InitialTemps ==
    {[i \in 1..MaxProc |-> NoFile]} \cup
    {[i \in 1..MaxProc |-> IF i = j THEN StaleFile ELSE NoFile] : j \in 1..MaxProc}

CdeOff ==
    [pc |-> "off", indices |-> <<>>, batch_size |-> 0, sentences |-> <<>>,
     batch_ix |-> 0, st |-> CdeStart, result |-> CdeResult(CdeStart)]

Init ==
    /\ pc = "new"
    /\ indices \in IndexArrays(MaxLen)
    /\ n_processes \in 1..MaxProc
    /\ batch_size_inference \in 1..MaxBatch
    /\ delete_temp \in BOOLEAN
    /\ gpus \in GpusArgs
    /\ splits = <<>>
    /\ h5_paths_temp = <<>>
    /\ joined = 0
    /\ consumed = 0
    /\ workers = [i \in 1..MaxProc |-> NoWorker]
    /\ temp \in InitialTemps
    /\ out = NoFile
    /\ cde = CdeOff
    /\ widget = Off
    /\ gem = Off
    /\ cli = Off
    /\ ner = Off

\* A check that rejects only a list that is too short.
GpusNotTooShort(g, n) == ~(g.given /\ Len(g.list) < n)

\* MPEmbedder.__init__: the check of `gpus` against n_processes.
GpusValid(g, n) == ~(g.given /\ Len(g.list) # n)

Construct ==
    /\ pc = "new"
    /\ pc' = IF GpusValid(gpus, n_processes) THEN "ready" ELSE "ctor_failed"
    /\ UNCHANGED <<indices, n_processes, batch_size_inference, delete_temp, gpus,
                   splits, h5_paths_temp, joined, consumed, workers, temp, out, cde, auxVars>>

\* do_embedding: splits = [x for x in np.array_split(indices, n) if len(x) > 0]
DoEmbeddingSplits(ary, n) == NonEmpty(ArraySplit(ary, n))

DoEmbeddingStart ==
    /\ pc = "ready"
    /\ splits' = DoEmbeddingSplits(indices, n_processes)
    /\ pc' = IF Len(splits') = 0 THEN "concat" ELSE "launch"
    /\ UNCHANGED <<indices, n_processes, batch_size_inference, delete_temp, gpus,
                   h5_paths_temp, joined, consumed, workers, temp, out, cde, auxVars>>

\* The chunks handed out in reverse worker order.
WorkerKwargsReversed(i) ==
    [indices |-> splits[Len(splits) + 1 - i],
     temp_h5_path |-> i,
     batch_size |-> batch_size_inference,
     gpu |-> IF ~gpus.given THEN <<>> ELSE gpus.list[i]]

\* Every worker given the temp path of the first.
WorkerKwargsOneTemp(i) ==
    [indices |-> splits[i],
     temp_h5_path |-> 1,
     batch_size |-> batch_size_inference,
     gpu |-> IF ~gpus.given THEN <<>> ELSE gpus.list[i]]

\* The kwargs of worker process_ix + 1.
WorkerKwargs(i) ==
    [indices |-> splits[i],
     temp_h5_path |-> i,
     batch_size |-> batch_size_inference,
     gpu |-> IF ~gpus.given THEN <<>> ELSE gpus.list[i]]

\* One iteration of `for process_ix, split in enumerate(splits)`.
Launch ==
    /\ pc = "launch"
    /\ LET i == Len(h5_paths_temp) + 1
       IN  /\ workers' = [workers EXCEPT ![i] =
                             [NoWorker EXCEPT !.pc = "started", !.kw = WorkerKwargs(i)]]
           /\ h5_paths_temp' = Append(h5_paths_temp, i)
           /\ pc' = IF i = Len(splits) THEN "join" ELSE "launch"
    /\ UNCHANGED <<indices, n_processes, batch_size_inference, delete_temp, gpus,
                   splits, joined, consumed, temp, out, cde, auxVars>>

\* A join that returns as soon as the process was started.
TerminatedOrRunning(w) == w.pc # "none"

\* process.join() returns: the process ended, normally or by an exception.
Terminated(w) == w.pc \in {"done", "failed"}

\* One iteration of `for process in worker_processes: process.join()`.
Join ==
    /\ pc = "join"
    /\ Terminated(workers[h5_paths_temp[joined + 1]])
    /\ joined' = joined + 1
    /\ pc' = IF joined' = Len(h5_paths_temp) THEN "concat" ELSE "join"
    /\ UNCHANGED <<indices, n_processes, batch_size_inference, delete_temp, gpus,
                   splits, h5_paths_temp, consumed, workers, temp, out, cde, auxVars>>

\* A call that leaves delete_inputs at its default.
DeleteInputsDefault == TRUE

\* delete_inputs=self.delete_temp
DeleteInputs == delete_temp

\* H5.concatenate consumes the next input path, with any batch_size_transfer.
ConcatenateInput ==
    /\ pc = "concat"
    /\ consumed < Len(h5_paths_temp)
    /\ LET i == h5_paths_temp[consumed + 1]
       IN  IF ~temp[i].exists
           THEN /\ pc' = "concat_failed"
                /\ UNCHANGED <<consumed, temp, out>>
           ELSE /\ \E batch_size_transfer \in 1..MaxTransfer :
                      out' = H5Append(out, temp[i], batch_size_transfer)
                /\ temp' = IF DeleteInputs THEN [temp EXCEPT ![i] = NoFile] ELSE temp
                /\ consumed' = consumed + 1
                /\ pc' = pc
    /\ UNCHANGED <<indices, n_processes, batch_size_inference, delete_temp, gpus,
                   splits, h5_paths_temp, joined, workers, cde, auxVars>>

\* H5.concatenate returns; do_embedding logs "Concatenation done!".
ConcatenateDone ==
    /\ pc = "concat"
    /\ consumed = Len(h5_paths_temp)
    /\ out' = [out EXCEPT !.exists = TRUE]
    /\ pc' = "done"
    /\ UNCHANGED <<indices, n_processes, batch_size_inference, delete_temp, gpus,
                   splits, h5_paths_temp, joined, consumed, workers, temp, cde, auxVars>>

\* ------------------------------------------------------ run_embedding_worker
\* One sub-batch only: the first batch_size positions.
WorkerSplitsHeadOnly(n_indices, batch_size) ==
    <<Arange(Min(n_indices, batch_size))>>

\* batch_size = min(n_indices, batch_size);
\* splits = np.array_split(np.arange(n_indices), n_indices / batch_size),
\* empty splits dropped.  array_split truncates the float to int(...).
WorkerSplits(n_indices, batch_size) ==
    NonEmpty(ArraySplit(Arange(n_indices),
                        n_indices \div Min(n_indices, batch_size)))

\* The sub-batches taken from the last to the first.
PosIndicesBackwards(w) ==
    LET sp == WorkerSplits(Len(w.kw.indices), w.kw.batch_size)
    IN  sp[Len(sp) + 1 - w.split_ix]

\* pos_indices and batch_indices of worker w's current sub-batch.
PosIndices(w) == WorkerSplits(Len(w.kw.indices), w.kw.batch_size)[w.split_ix]
BatchIndices(w) == Take(w.kw.indices, PosIndices(w))

\* The variable set only for a gpu id that is truthy: not for device 0.
CudaVisibleDevicesIfTruthy(before, gpu) ==
    IF gpu \notin {<<>>, <<0>>} THEN gpu ELSE before

\* os.environ["CUDA_VISIBLE_DEVICES"] after `if gpu is not None: ...`
CudaVisibleDevices(before, gpu) == IF gpu # <<>> THEN gpu ELSE before

\* device="cpu" if gpu is None else "cuda"
Device(gpu) == IF gpu = <<>> THEN "cpu" ELSE "cuda"

\* Datasets created without rows.
CreateTempEmpty(file, n_indices) == H5Create(H5Create(file, "emb", 0), "ids", 0)

\* The two H5.create calls: both datasets, one row per id of the chunk.
CreateTemp(file, n_indices) ==
    H5Create(H5Create(file, "emb", n_indices), "ids", n_indices)

\* A check of the temp path that never finds the file.
TempNeverExists(file) == FALSE

\* temp_h5_path.exists()
TempExists(file) == file.exists

\* From the start of the worker to "Populating h5 files": the GPU is
\* selected, the model is loaded (its constructor may raise), the temp path
\* is checked, the two datasets are created.
WorkerSetup(i) ==
    /\ workers[i].pc = "started"
    /\ LET w == workers[i]
           env == [w EXCEPT !.cuda_visible_devices = CudaVisibleDevices(@, w.kw.gpu)]
       IN  \E loaded \in BOOLEAN :
              IF ~loaded
              THEN /\ workers' = [workers EXCEPT ![i] =
                                     [env EXCEPT !.pc = "failed", !.err = "load"]]
                   /\ temp' = temp
              ELSE IF TempExists(temp[w.kw.temp_h5_path])
              THEN /\ workers' = [workers EXCEPT ![i] =
                                     [env EXCEPT !.pc = "failed", !.err = "FileExistsError",
                                                 !.device = Device(w.kw.gpu)]]
                   /\ temp' = temp
              ELSE /\ workers' = [workers EXCEPT ![i] =
                                     [env EXCEPT !.pc = "populating", !.split_ix = 1,
                                                 !.device = Device(w.kw.gpu)]]
                   /\ temp' = [temp EXCEPT ![w.kw.temp_h5_path] =
                                  CreateTemp(@, Len(w.kw.indices))]
    /\ UNCHANGED <<pc, indices, n_processes, batch_size_inference, delete_temp, gpus,
                   splits, h5_paths_temp, joined, consumed, out, cde, auxVars>>

\* A comparison of the two id arrays as sets, blind to their order.
DisagreeAsSets(retrieved_indices, batch_indices) ==
    Range(retrieved_indices) # Range(batch_indices)

\* `not np.array_equal(retrieved_indices, batch_indices)`
Disagree(retrieved_indices, batch_indices) == retrieved_indices # batch_indices

\* The try block of one sub-batch: the embeddings are computed, the ids are
\* compared, the embedding rows are written; any exception stops the child.
WorkerCompute(i) ==
    /\ workers[i].pc = "populating"
    /\ LET w == workers[i]
           batch_indices == BatchIndices(w)
       IN  \E sentences \in RetrieveOutcomes(batch_indices) :
              LET r == ComputeDatabaseEmbeddings(sentences, Len(batch_indices))
              IN  IF r.raised
                  THEN /\ workers' = [workers EXCEPT ![i] =
                                         [w EXCEPT !.pc = "failed", !.err = "compute"]]
                       /\ temp' = temp
                  ELSE IF Disagree(r.retrieved_indices, batch_indices)
                  THEN /\ workers' = [workers EXCEPT ![i] =
                                         [w EXCEPT !.pc = "failed", !.err = "ValueError"]]
                       /\ temp' = temp
                  ELSE /\ workers' = [workers EXCEPT ![i] = [w EXCEPT !.pc = "write_ids"]]
                       /\ temp' = [temp EXCEPT ![w.kw.temp_h5_path] =
                                      H5Write(@, "emb", r.final_embeddings, PosIndices(w))]
    /\ UNCHANGED <<pc, indices, n_processes, batch_size_inference, delete_temp, gpus,
                   splits, h5_paths_temp, joined, consumed, out, cde, auxVars>>

\* The position of the worker after the ids of sub-batch split_ix are written.
AfterBatch(w) ==
    IF w.split_ix = Len(WorkerSplits(Len(w.kw.indices), w.kw.batch_size))
    THEN [w EXCEPT !.pc = "done"]
    ELSE [w EXCEPT !.pc = "populating", !.split_ix = @ + 1]

\* The H5.write of the ids of the sub-batch, after the try block.
WorkerWriteIds(i) ==
    /\ workers[i].pc = "write_ids"
    /\ LET w == workers[i]
       IN  /\ temp' = [temp EXCEPT ![w.kw.temp_h5_path] =
                          H5Write(@, "ids", BatchIndices(w), PosIndices(w))]
           /\ workers' = [workers EXCEPT ![i] = AfterBatch(w)]
    /\ UNCHANGED <<pc, indices, n_processes, batch_size_inference, delete_temp, gpus,
                   splits, h5_paths_temp, joined, consumed, out, cde, auxVars>>

Next ==
    \/ Construct
    \/ DoEmbeddingStart
    \/ Launch
    \/ Join
    \/ ConcatenateInput
    \/ ConcatenateDone
    \/ \E i \in 1..MaxProc : WorkerSetup(i)
    \/ \E i \in 1..MaxProc : WorkerCompute(i)
    \/ \E i \in 1..MaxProc : WorkerWriteIds(i)

Spec == Init /\ [][Next]_vars

\* ------------------------------- one call of compute_database_embeddings
\* The MPEmbedder part of the state when no embedder exists.
MPOff ==
    /\ pc = "off"
    /\ indices = <<>>
    /\ n_processes = 1
    /\ batch_size_inference = 1
    /\ delete_temp = TRUE
    /\ gpus = [given |-> FALSE, list |-> <<>>]
    /\ splits = <<>>
    /\ h5_paths_temp = <<>>
    /\ joined = 0
    /\ consumed = 0
    /\ workers = [i \in 1..MaxProc |-> NoWorker]
    /\ temp = [i \in 1..MaxProc |-> NoFile]
    /\ out = NoFile

InitCDE ==
    /\ MPOff
    /\ widget = Off
    /\ gem = Off
    /\ cli = Off
    /\ ner = Off
    /\ \E ids \in IndexArrays(MaxRows), b \in 1..MaxBatchSize :
          cde = [CdeOff EXCEPT !.pc = "call", !.indices = ids, !.batch_size = b]

\* sentences = retrieve_sentences_from_sentence_ids(indices, connection)
CdeRetrieve ==
    /\ cde.pc = "call"
    /\ \E sentences \in RetrieveOutcomes(cde.indices) :
          cde' = [cde EXCEPT !.pc = "loop", !.sentences = sentences, !.batch_ix = 0]
    /\ UNCHANGED <<mpVars, auxVars>>

\* One iteration of `for batch_ix in range((n_sentences // batch_size) + 1)`.
CdeIterate ==
    /\ cde.pc = "loop"
    /\ cde.batch_ix < CdeIterations(Len(cde.sentences), cde.batch_size)
    /\ cde' = [cde EXCEPT !.st = CdeBody(@, cde.sentences, cde.batch_size, cde.batch_ix),
                          !.batch_ix = @ + 1]
    /\ UNCHANGED <<mpVars, auxVars>>

\* np.concatenate, np.array and the return.
CdeReturn ==
    /\ cde.pc = "loop"
    /\ cde.batch_ix = CdeIterations(Len(cde.sentences), cde.batch_size)
    /\ cde' = [cde EXCEPT !.result = CdeResult(cde.st),
                          !.pc = IF CdeResult(cde.st).raised THEN "raised" ELSE "returned"]
    /\ UNCHANGED <<mpVars, auxVars>>

NextCDE == CdeRetrieve \/ CdeIterate \/ CdeReturn

SpecCDE == InitCDE /\ [][NextCDE]_vars

\* ------------------------------------------------------ MiningWidget
\* From src/src/bbsearch/widgets/mining_widget.py.  Encodings.  The content
\* of a DataFrame is an integer: 0 is the empty pd.DataFrame(), t in
\* 1..MaxTable is a table of extractions the server can send, -1 is what
\* pd.read_csv makes of a body that is not CSV, and c + 10 is the frame c
\* after its holder added a column to it.  DataFrame objects live in
\* `heap`; a reference is a position of it, 0 is None.  A JSON body is a
\* record of all the possible keys with `keys` naming those it has.
MaxOps == 3        \* steps of one widget's user and of its server
MaxTable == 1      \* distinct extraction tables the server can send

EmptyDataFrame == 0
NotCsvFrame == 0 - 1

Texts == {"", "HELLO"}

\* An `information` argument: a list of (article_id, paragraph_id), a
\* string, or a value of another type.
ListInformation(identifiers) ==
    [type |-> "list", identifiers |-> identifiers, text |-> ""]
StrInformation(text) ==
    [type |-> "str", identifiers |-> <<>>, text |-> text]
OtherInformation == [type |-> "other", identifiers |-> <<>>, text |-> ""]
NoInformation == [type |-> "none", identifiers |-> <<>>, text |-> ""]

\* The responses a mining server can be set up to give: the Content-Type
\* header and the body, which is CSV text of a table, JSON text with the
\* CSV of a table under `csv_extractions` next to `warnings`, or a page.
Responses ==
    [content_type : {"text/csv", "application/json"},
     format : {"csv", "json"}, table : 1..MaxTable]
    \cup {[content_type |-> "text/html", format |-> "html", table |-> 0]}

\* The article savers a widget can be given: None, or one with the
\* chosen texts (article_id, paragraph_id) of two articles.
ArticleSavers ==
    {[given |-> FALSE, chosen_texts |-> <<>>],
     [given |-> TRUE, chosen_texts |-> <<<<0, 0>>, <<1, 0>>>>]}

\* No response: no request was made.
NoResponse == [content_type |-> "", format |-> "", table |-> 0]

\* pd.read_csv(io.StringIO(response.text)).
ReadCsv(response) ==
    IF response.format = "csv" THEN response.table ELSE NotCsvFrame

DatabaseRequest(url, information) ==
    [url |-> <<url, "/database">>, keys |-> {"identifiers"},
     identifiers |-> information.identifiers, text |-> "", debug |-> FALSE]

\* A request to /text that leaves `debug` at its default.
TextRequestNoDebug(url, information, debug) ==
    [url |-> <<url, "/text">>, keys |-> {"text", "debug"},
     identifiers |-> <<>>, text |-> information.text, debug |-> FALSE]

TextRequest(url, information, debug) ==
    [url |-> <<url, "/text">>, keys |-> {"text", "debug"},
     identifiers |-> <<>>, text |-> information.text, debug |-> debug]

\* What textmining_pipeline does: whether it raised TypeError, the requests
\* it posted, the lines it printed and the frame it returned (<<>> is None,
\* <<c>> a new frame of content c).
TextminingPipeline(w, information, debug) ==
    IF information.type \notin {"list", "str"}
    THEN [raised |-> TRUE, requests |-> <<>>, printed |-> <<>>,
          table |-> <<>>, response |-> NoResponse]
    ELSE LET request ==
                 IF information.type = "list"
                 THEN DatabaseRequest(w.mining_server_url, information)
                 ELSE TextRequest(w.mining_server_url, information, debug)
             response == w.server
         IN  IF response.content_type = "text/csv"
             THEN [raised |-> FALSE, requests |-> <<request>>,
                   printed |-> <<>>, table |-> <<ReadCsv(response)>>,
                   response |-> response]
             ELSE [raised |-> FALSE, requests |-> <<request>>,
                   printed |-> <<"Response content type is not text/csv.",
                                 "response.headers", "response.text">>,
                   table |-> <<>>, response |-> response]

\* The object a returned frame is: a new object of the heap, or None.
Store(heap, table) ==
    IF table = <<>>
    THEN [heap |-> heap, ref |-> 0]
    ELSE [heap |-> Append(heap, table[1]), ref |-> Len(heap) + 1]

PrintItem(text) == [kind |-> "print", text |-> text, ref |-> 0]
DisplayItem(ref) == [kind |-> "display", text |-> "table_extractions",
                     ref |-> ref]
PrintItems(printed) == [k \in 1..Len(printed) |-> PrintItem(printed[k])]

LastOp(op, information, debug, r, ref) ==
    [op |-> op, information |-> information, debug |-> debug,
     raised |-> r.raised, printed |-> r.printed, returned |-> ref,
     response |-> r.response]

NoResult == [raised |-> FALSE, requests |-> <<>>, printed |-> <<>>,
             table |-> <<>>, response |-> NoResponse]

\* MiningWidget.__init__, with the server its URL points to.
NewWidget(mining_server_url, article_saver, default_text, server) ==
    [pc |-> "idle", mining_server_url |-> mining_server_url,
     article_saver |-> article_saver, input_text |-> default_text,
     table_extractions |-> 0, heap |-> <<>>, held |-> 0, out |-> <<>>,
     http |-> <<>>, server |-> server, ops |-> 0,
     last |-> LastOp("__init__", NoInformation, FALSE, NoResult, 0)]

InitWidget ==
    /\ MPOff
    /\ cde = CdeOff
    /\ gem = Off
    /\ cli = Off
    /\ ner = Off
    /\ \E article_saver \in ArticleSavers, default_text \in Texts,
          server \in Responses :
          widget = NewWidget("http://test", article_saver, default_text,
                             server)

\* An assignment that keeps the old table when the new value is None.
AssignedUnlessNone(old, new) == IF new = 0 THEN old ELSE new

\* self.table_extractions = self.textmining_pipeline(...)
Assigned(old, new) == new

\* _mine_text_clicked.
MineTextClicked(w) ==
    LET information == StrInformation(w.input_text)
        r == TextminingPipeline(w, information, FALSE)
        st == Store(w.heap, r.table)
    IN  [w EXCEPT !.heap = st.heap,
                  !.table_extractions = Assigned(@, st.ref),
                  !.http = @ \o r.requests,
                  !.out = PrintItems(r.printed) \o <<DisplayItem(st.ref)>>,
                  !.ops = @ + 1,
                  !.last = LastOp("mine_text", information, FALSE, r, 0)]

\* A widget that takes itself to have an article saver in every case.
ArticleSaverIsNoneNever(w) == FALSE

ArticleSaverIsNone(w) == ~w.article_saver.given

\* _mine_articles_clicked.
MineArticlesClicked(w) ==
    IF ArticleSaverIsNone(w)
    THEN [w EXCEPT !.out = <<PrintItem(
                       "No article saver was provided. Nothing to mine.")>>,
                   !.ops = @ + 1,
                   !.last = LastOp("mine_articles", NoInformation, FALSE,
                                   NoResult, 0)]
    ELSE LET information == ListInformation(w.article_saver.chosen_texts)
             r == TextminingPipeline(w, information, FALSE)
             st == Store(w.heap, r.table)
         IN  [w EXCEPT !.heap = st.heap,
                  !.table_extractions = Assigned(@, st.ref),
                       !.http = @ \o r.requests,
                       !.out = <<PrintItem("Collecting saved items..."),
                                 PrintItem("collect items seconds"),
                                 PrintItem("Running the mining pipeline...")>>
                               \o PrintItems(r.printed)
                               \o <<PrintItem("pipeline seconds"),
                                    DisplayItem(st.ref)>>,
                       !.ops = @ + 1,
                       !.last = LastOp("mine_articles", information, FALSE,
                                       r, 0)]

\* A get_extracted_table that hands out the stored frame itself.
ShareFrame(heap, ref) == [heap |-> heap, ref |-> ref]

\* DataFrame.copy().
CopyFrame(heap, ref) ==
    [heap |-> Append(heap, heap[ref]), ref |-> Len(heap) + 1]

\* get_extracted_table.
GetExtractedTableOf(w) ==
    LET st == IF w.table_extractions # 0
              THEN CopyFrame(w.heap, w.table_extractions)
              ELSE Store(w.heap, <<EmptyDataFrame>>)
    IN  [w EXCEPT !.heap = st.heap, !.held = st.ref, !.ops = @ + 1,
                  !.last = LastOp("get_extracted_table", NoInformation,
                                  FALSE, NoResult, st.ref)]

widgetFrame == <<mpVars, cde, gem, cli, ner>>

\* The user clicks "Mine This Text!".
ClickMineText ==
    /\ widget.pc = "idle"
    /\ widget.ops < MaxOps
    /\ widget' = MineTextClicked(widget)
    /\ UNCHANGED widgetFrame

\* The user clicks "Mine Selected Articles!".
ClickMineArticles ==
    /\ widget.pc = "idle"
    /\ widget.ops < MaxOps
    /\ widget' = MineArticlesClicked(widget)
    /\ UNCHANGED widgetFrame

\* The user calls textmining_pipeline and keeps what it returns.
CallTextminingPipeline ==
    /\ widget.pc = "idle"
    /\ widget.ops < MaxOps
    /\ \E information \in {ListInformation(<<<<0, 0>>>>),
                           StrInformation("HELLO"), OtherInformation},
          debug \in BOOLEAN :
          LET r == TextminingPipeline(widget, information, debug)
              st == Store(widget.heap, r.table)
          IN  widget' = [widget EXCEPT
                  !.heap = st.heap,
                  !.held = IF r.raised THEN @ ELSE st.ref,
                  !.http = @ \o r.requests,
                  !.ops = @ + 1,
                  !.last = LastOp("textmining_pipeline", information, debug,
                                  r, st.ref)]
    /\ UNCHANGED widgetFrame

\* The user calls get_extracted_table and keeps what it returns.
GetExtractedTable ==
    /\ widget.pc = "idle"
    /\ widget.ops < MaxOps
    /\ widget' = GetExtractedTableOf(widget)
    /\ UNCHANGED widgetFrame

\* The user adds a column to the frame they hold.
MutateReturned ==
    /\ widget.pc = "idle"
    /\ widget.ops < MaxOps
    /\ widget.held # 0
    /\ widget.heap[widget.held] < 10
    /\ widget' = [widget EXCEPT
           !.heap[widget.held] = @ + 10,
           !.ops = @ + 1,
           !.last = LastOp("mutate", NoInformation, FALSE, NoResult, 0)]
    /\ UNCHANGED widgetFrame

\* The mining server starts to answer differently.
ServerChanges ==
    /\ widget.pc = "idle"
    /\ widget.ops < MaxOps
    /\ \E server \in Responses \ {widget.server} :
          widget' = [widget EXCEPT
              !.server = server,
              !.ops = @ + 1,
              !.last = LastOp("server", NoInformation, FALSE, NoResult, 0)]
    /\ UNCHANGED widgetFrame

NextWidget ==
    \/ ServerChanges
    \/ ClickMineText
    \/ ClickMineArticles
    \/ CallTextminingPipeline
    \/ GetExtractedTable
    \/ MutateReturned

SpecWidget == InitWidget /\ [][NextWidget]_vars

\* ------------------------------------------------------ get_embedding_model
\* A constructor call is [cls, path, device]; "-" stands for a parameter
\* the call does not pass, "None" for Python None.
ModelNames ==
    {"SentTransformer", "BioBERT NLI+STS", "SBioBERT", "SBERT",
     "Sent2VecModel", "BSV", "SklearnVectorizer"}

\* Names the factory can be asked for: the recognized ones and others.
RequestedNames == ModelNames \cup {"sbert", "USE"}
CheckpointPaths == {"None", "model.bin", "models/"}
Devices == {"None", "cpu", "cuda"}

\* A `configs` whose SBERT entry loads the checkpoint given.
ConfigsSbertFromCheckpoint(checkpoint_path, device) ==
    [name \in ModelNames |->
        CASE name \in {"SentTransformer", "SBERT"} ->
                 [cls |-> "SentTransformer", path |-> checkpoint_path,
                  device |-> device]
          [] name = "BioBERT NLI+STS" ->
                 [cls |-> "SentTransformer",
                  path |-> "clagator/biobert_v1.1_pubmed_nli_sts",
                  device |-> device]
          [] name = "SBioBERT" ->
                 [cls |-> "SBioBERT", path |-> "-", device |-> device]
          [] OTHER ->
                 [cls |-> name, path |-> checkpoint_path, device |-> "-"]]

\* The dict `configs`: for each name, the constructor call its lambda makes.
Configs(checkpoint_path, device) ==
    [name \in ModelNames |->
        CASE name = "SentTransformer" ->
                 [cls |-> "SentTransformer", path |-> checkpoint_path,
                  device |-> device]
          [] name = "BioBERT NLI+STS" ->
                 [cls |-> "SentTransformer",
                  path |-> "clagator/biobert_v1.1_pubmed_nli_sts",
                  device |-> device]
          [] name = "SBioBERT" ->
                 [cls |-> "SBioBERT", path |-> "-", device |-> device]
          [] name = "SBERT" ->
                 [cls |-> "SentTransformer",
                  path |-> "bert-base-nli-mean-tokens", device |-> device]
          [] name = "Sent2VecModel" ->
                 [cls |-> "Sent2VecModel", path |-> checkpoint_path,
                  device |-> "-"]
          [] name = "BSV" ->
                 [cls |-> "BSV", path |-> checkpoint_path, device |-> "-"]
          [] name = "SklearnVectorizer" ->
                 [cls |-> "SklearnVectorizer", path |-> checkpoint_path,
                  device |-> "-"]]

gemFrame == <<mpVars, cde, widget, cli, ner>>

InitGEM ==
    /\ MPOff
    /\ cde = CdeOff
    /\ widget = Off
    /\ cli = Off
    /\ ner = Off
    /\ \E model_name_or_class \in RequestedNames,
          checkpoint_path \in CheckpointPaths, device \in Devices :
          gem = [pc |-> "call", model_name_or_class |-> model_name_or_class,
                 checkpoint_path |-> checkpoint_path, device |-> device,
                 constructed |-> <<>>]

\* `configs` is built, of lambdas, and the name looked up in it.
GemLookup ==
    /\ gem.pc = "call"
    /\ gem' = [gem EXCEPT !.pc =
                 IF gem.model_name_or_class
                        \notin DOMAIN Configs(gem.checkpoint_path, gem.device)
                 THEN "ValueError" ELSE "found"]
    /\ UNCHANGED gemFrame

\* return configs[model_name_or_class]()
GemConstruct ==
    /\ gem.pc = "found"
    /\ gem' = [gem EXCEPT
           !.pc = "returned",
           !.constructed = Append(@, Configs(gem.checkpoint_path, gem.device)
                                         [gem.model_name_or_class])]
    /\ UNCHANGED gemFrame

NextGEM == GemLookup \/ GemConstruct

SpecGEM == InitGEM /\ [][NextGEM]_vars

\* ------------------------------------------------------ the parse command
\* `parse <input_type> <input_path> <output_path>`, from section 4.3 of the
\* specification and tests/unit/entrypoint/database/test_parse.py.
\* Encodings.  The content of a source record is an integer; a source file
\* is the sequence of its records (one, except for pubmed-xml-set); a file
\* name <uid>.json is <<uid, ".json">>; a directory is the set of its
\* files, each [name, article].
MaxArticles == 3   \* most source records under one input path
MaxContent == 3    \* distinct source record contents
MaxReruns == 2     \* runs of the command after the first, on the same paths

InputTypes == {"cord19-json", "pmc-xml", "pubmed-xml", "pubmed-xml-set"}

\* The normalized form of a source content: contents 2k-1 and 2k differ
\* only in what normalization removes.
Normalize(content) == (content + 1) \div 2

\* Article.uid: a hash of the normalized source content.
Uid(content) == 500 + Normalize(content)

Article(content) == [uid |-> Uid(content), body |-> Normalize(content)]

\* The sequence s cut into files after the positions of K.
CutIntoFiles(s, K) ==
    LET FileOf(p) == 1 + Cardinality({k \in K : k < p})
        First(j) == CHOOSE p \in 1..Len(s) :
                        FileOf(p) = j /\ \A q \in 1..(p - 1) : FileOf(q) < j
        Last(j) == CHOOSE p \in 1..Len(s) :
                       FileOf(p) = j
                       /\ \A q \in (p + 1)..Len(s) : FileOf(q) > j
    IN  [j \in 1..(Cardinality(K) + 1) |-> SubSeq(s, First(j), Last(j))]

RecordSeqs == UNION {[1..n -> 1..MaxContent] : n \in 1..MaxArticles}

\* The input paths a run can be given: a path that does not exist, one
\* file, or a directory of files (possibly none); a file of a type other
\* than pubmed-xml-set holds one record.
InputPaths(input_type) ==
    {[kind |-> "missing", files |-> <<>>], [kind |-> "dir", files |-> <<>>]}
    \cup {[kind |-> "file", files |-> <<s>>] :
            s \in {r \in RecordSeqs :
                     input_type = "pubmed-xml-set" \/ Len(r) = 1}}
    \cup UNION {{[kind |-> "dir", files |-> CutIntoFiles(s, K)] :
                   K \in {C \in SUBSET (1..(Len(s) - 1)) :
                            input_type = "pubmed-xml-set"
                            \/ C = 1..(Len(s) - 1)}} :
                s \in RecordSeqs}

\* Parsers yielded from the last record to the first.
IterParsersBackwards(input_type, file) ==
    [k \in 1..Len(file) |-> file[Len(file) + 1 - k]]

\* iter_parsers on one file: one parser per record, in document order.
IterParsers(input_type, file) == file

RECURSIVE Flatten(_)
Flatten(files) ==
    IF files = <<>> THEN <<>> ELSE Head(files) \o Flatten(Tail(files))

\* A write that names the file after the article's text.
WriteArticleNamedByBody(files, article) ==
    {f \in files : f.name # <<article.body, ".json">>}
    \cup {[name |-> <<article.body, ".json">>, article |-> article]}

\* A write that keeps a file already there and takes another name.
WriteArticleBeside(files, article) ==
    IF \E f \in files : f.name = <<article.uid, ".json">>
    THEN files \cup {[name |-> <<article.uid + 1000, ".json">>,
                      article |-> article]}
    ELSE files \cup {[name |-> <<article.uid, ".json">>, article |-> article]}

\* The article written as <uid>.json, over any file of that name.
WriteArticle(files, article) ==
    {f \in files : f.name # <<article.uid, ".json">>}
    \cup {[name |-> <<article.uid, ".json">>, article |-> article]}

\* An argument parser that lets every input_type through.
ValidChoiceAny(input_type) == TRUE

ValidChoice(input_type) == input_type \in InputTypes

NoMessage == [text |-> "", value |-> ""]

cliFrame == <<mpVars, cde, widget, gem, ner>>

InitParse ==
    /\ MPOff
    /\ cde = CdeOff
    /\ widget = Off
    /\ gem = Off
    /\ ner = Off
    /\ \E input_type \in InputTypes \cup {"wrong-type"},
          exists \in BOOLEAN :
          \E input_path \in InputPaths(input_type) :
             cli = [pc |-> "args", input_type |-> input_type,
                    input_path |-> input_path,
                    out_dir0 |-> [exists |-> exists, files |-> {}],
                    out_dir |-> [exists |-> exists, files |-> {}],
                    pending |-> <<>>, reads |-> 0, writes |-> 0,
                    exit_code |-> 0 - 1, message |-> NoMessage,
                    parsers |-> <<>>, runs |-> 0,
                    after_first |-> [exists |-> exists, files |-> {}]]

\* The command line is parsed: input_type is one of the choices, or the
\* process exits with code 2.
CliParseArgs ==
    /\ cli.pc = "args"
    /\ cli' = IF ValidChoice(cli.input_type)
              THEN [cli EXCEPT !.pc = "iter"]
              ELSE [cli EXCEPT !.pc = "exit", !.exit_code = 2,
                               !.message = [text |-> "invalid choice",
                                            value |-> cli.input_type]]
    /\ UNCHANGED cliFrame

\* The input path is read and the parsers of its files collected; the
\* output directory is created if absent.
CliIterParsers ==
    /\ cli.pc = "iter"
    /\ cli' = IF cli.input_type \notin InputTypes
              THEN [cli EXCEPT !.pc = "ValueError", !.exit_code = 1]
              ELSE IF cli.input_path.files = <<>>
              THEN [cli EXCEPT !.pc = "ValueError", !.exit_code = 1,
                               !.reads = @ + 1]
              ELSE [cli EXCEPT
                       !.pc = "write",
                       !.reads = @ + 1,
                       !.pending = Flatten(
                           [k \in 1..Len(cli.input_path.files) |->
                               IterParsers(cli.input_type,
                                           cli.input_path.files[k])]),
                       !.parsers = Flatten(
                           [k \in 1..Len(cli.input_path.files) |->
                               IterParsers(cli.input_type,
                                           cli.input_path.files[k])]),
                       !.out_dir.exists = TRUE,
                       !.writes = IF cli.out_dir.exists THEN @ ELSE @ + 1]
    /\ UNCHANGED cliFrame

\* The next article is written to the output directory.
CliWriteArticle ==
    /\ cli.pc = "write"
    /\ cli.pending # <<>>
    /\ cli' = [cli EXCEPT
           !.pending = Tail(@),
           !.out_dir.files = WriteArticle(@, Article(Head(cli.pending))),
           !.writes = @ + 1]
    /\ UNCHANGED cliFrame

CliDone ==
    /\ cli.pc = "write"
    /\ cli.pending = <<>>
    /\ cli' = [cli EXCEPT !.pc = "done", !.exit_code = 0]
    /\ UNCHANGED cliFrame

\* The same command line is run again once the process has ended; what
\* the first run left in the output directory is remembered.
CliRerun ==
    /\ cli.pc \in {"done", "exit", "ValueError"}
    /\ cli.runs < MaxReruns
    /\ cli' = [cli EXCEPT
           !.pc = "args",
           !.runs = @ + 1,
           !.after_first = IF cli.runs = 0 THEN cli.out_dir ELSE @,
           !.pending = <<>>,
           !.parsers = <<>>,
           !.exit_code = 0 - 1,
           !.message = NoMessage]
    /\ UNCHANGED cliFrame

NextParse ==
    \/ CliParseArgs
    \/ CliIterParsers
    \/ CliWriteArticle
    \/ CliDone
    \/ CliRerun

SpecParse == InitParse /\ [][NextParse]_vars

\* ------------------------------------------------------ the NER evaluation
\* main() of data_and_models/pipelines/ner/eval.py from the opening of the
\* output file on.  Encodings.  A string is the sequence of its parts, so
\* f"{mode}_{k}" is <<mode, "_">> \o k; an OrderedDict is the sequence of
\* its items [key, value] in insertion order; a metric value is an integer.
MaxMetrics == 2    \* metric keys ner_report can report for one entity type
MaxValue == 1      \* largest metric value

Modes == <<"entity", "token">>

MetricNames == <<"precision", "recall", "f1-score", "support", "accuracy">>

\* The metric keys of the model, each a string of one part.
MetricKeys == {<<MetricNames[i]>> : i \in 1..MaxMetrics}

\* The reports ner_report(...)[etype] can return for one mode: the keys of
\* K in some order, each with a value.
ReportsOver(K) ==
    UNION {{[i \in 1..Len(order) |-> [key |-> order[i], value |-> v[i]]] :
               v \in [1..Len(order) -> 0..MaxValue]} :
           order \in {o \in [1..Cardinality(K) -> K] :
                        \A i, j \in 1..Cardinality(K) :
                           i # j => o[i] # o[j]}}

\* A key left as ner_report gave it.
UnprefixedKey(mode, k) == k

\* f"{mode}_{k}"
PrefixedKey(mode, k) == <<mode, "_">> \o k

\* OrderedDict([(f"{mode}_{k}", v) for k, v in metrics_dict.items()])
PrefixedDict(mode, metrics_dict) ==
    [i \in 1..Len(metrics_dict) |->
        [key |-> PrefixedKey(mode, metrics_dict[i].key),
         value |-> metrics_dict[i].value]]

\* d[key] = value on an OrderedDict: a key already there keeps its place.
DictSet(d, item) ==
    IF \E i \in 1..Len(d) : d[i].key = item.key
    THEN [i \in 1..Len(d) |-> IF d[i].key = item.key THEN item ELSE d[i]]
    ELSE Append(d, item)

\* OrderedDict.update(other)
RECURSIVE DictUpdate(_, _)
DictUpdate(d, other) ==
    IF other = <<>> THEN d
    ELSE DictUpdate(DictSet(d, Head(other)), Tail(other))

nerFrame == <<mpVars, cde, widget, gem, cli>>

InitEval ==
    /\ MPOff
    /\ cde = CdeOff
    /\ widget = Off
    /\ gem = Off
    /\ cli = Off
    /\ \E K \in (SUBSET MetricKeys) \ {{}}, existed \in BOOLEAN :
          \E entity \in ReportsOver(K), token \in ReportsOver(K) :
             ner = [pc |-> "open", report |-> <<entity, token>>,
                    mode_ix |-> 1, all_metrics_dict |-> <<>>,
                    output_file |-> [exists |-> existed, objects |-> <<>>]]

\* with output_file.open("w") as f: all_metrics_dict = OrderedDict()
EvalOpen ==
    /\ ner.pc = "open"
    /\ ner' = [ner EXCEPT !.pc = "loop", !.all_metrics_dict = <<>>,
                          !.output_file = [exists |-> TRUE,
                                           objects |-> <<>>]]
    /\ UNCHANGED nerFrame

\* One iteration of `for mode in ["entity", "token"]`.
EvalMode ==
    /\ ner.pc = "loop"
    /\ ner.mode_ix <= Len(Modes)
    /\ LET mode == Modes[ner.mode_ix]
           metrics_dict == PrefixedDict(mode, ner.report[ner.mode_ix])
       IN  ner' = [ner EXCEPT
               !.all_metrics_dict = DictUpdate(@, metrics_dict),
               !.mode_ix = @ + 1]
    /\ UNCHANGED nerFrame

\* json.dump(all_metrics_dict, f)
EvalDump ==
    /\ ner.pc = "loop"
    /\ ner.mode_ix > Len(Modes)
    /\ ner' = [ner EXCEPT
           !.pc = "written",
           !.output_file.objects = Append(@, ner.all_metrics_dict)]
    /\ UNCHANGED nerFrame

NextEval == EvalOpen \/ EvalMode \/ EvalDump

SpecEval == InitEval /\ [][NextEval]_vars

\* ====================================================== properties
\* The workers do_embedding launched.
Launched == {h5_paths_temp[k] : k \in 1..Len(h5_paths_temp)}

\* do_embedding is past the split of `indices`.
SplitDone == pc \in {"launch", "join", "concat", "concat_failed", "done"}

\* do_embedding is past the launch loop.
LaunchDone == pc \in {"join", "concat", "concat_failed", "done"}

\* do_embedding has called H5.concatenate.
ConcatStarted == pc \in {"concat", "concat_failed", "done"}

Ceil(n, b) == (n + b - 1) \div b

\* C1: when every launched worker completed without error and do_embedding
\* has returned, the output's ids dataset is `indices`, row for row, and
\* row i of the embeddings dataset is the embedding of indices[i], whatever
\* the order in which the workers ran and finished.
C1_OutputPreservesIndexOrder ==
    (pc = "done" /\ \A i \in Launched : workers[i].pc = "done")
        => /\ out.exists
           /\ out.ids = indices
           /\ out.emb = [k \in 1..Len(indices) |-> EmbeddingOf(indices[k])]

\* Two workers, both done, on a descending id array of three or more ids.
W1_TwoWorkersAllDone ==
    /\ pc = "done"
    /\ Len(h5_paths_temp) = 2
    /\ \A i \in Launched : workers[i].pc = "done"
    /\ Len(indices) >= 3
    /\ indices[1] > indices[2]

\* C2: the chunks are contiguous slices of `indices`, none empty, their
\* sizes differ by at most one, there are min(len(indices), n_processes) of
\* them, concatenated in worker order they are `indices`, and worker i is
\* launched on chunk i: one worker per chunk.
C2_ChunksPartitionIndices ==
    /\ SplitDone =>
          /\ Len(splits) = Min(Len(indices), n_processes)
          /\ \A k \in 1..Len(splits) : Len(splits[k]) >= 1
          /\ \A k, l \in 1..Len(splits) : Len(splits[k]) - Len(splits[l]) <= 1
          /\ Len(splits) < n_processes => \A k \in 1..Len(splits) : Len(splits[k]) = 1
          /\ Concatenate(splits) = indices
    /\ LaunchDone =>
          /\ Launched = 1..Len(splits)
          /\ \A i \in 1..MaxProc : workers[i].pc # "none" <=> i \in Launched
          /\ \A i \in Launched : workers[i].kw.indices = splits[i]

\* Three ids on two processes: chunks of two and one id, both launched.
W2_UnevenChunks ==
    /\ LaunchDone
    /\ Len(indices) = 3
    /\ n_processes = 2
    /\ Len(splits[1]) = 2
    /\ Len(splits[2]) = 1

\* C3: H5.concatenate starts only after every launched worker process has
\* ended, and a join on an ended process returns whether the process ended
\* normally or by an exception: the parent goes on to the concatenation.
C3_ConcatenationAfterAllWorkersEnded ==
    /\ ConcatStarted => \A i \in Launched : workers[i].pc \in {"done", "failed"}
    /\ (pc = "join" /\ workers[h5_paths_temp[joined + 1]].pc \in {"done", "failed"})
           => ENABLED Join

\* The concatenation was started although a worker had failed.
W3_ConcatenationAfterFailure ==
    /\ ConcatStarted
    /\ consumed >= 1
    /\ \E i, j \in Launched : workers[i].pc = "failed" /\ workers[j].pc = "done"

\* The worker failed inside the try block of one of its sub-batches.
FailedInBatch(w) == w.pc = "failed" /\ w.err \in {"compute", "ValueError"}

\* The positions of the chunk in the sub-batches before the current one.
PositionsBefore(w) ==
    UNION {Range(WorkerSplits(Len(w.kw.indices), w.kw.batch_size)[j]) :
              j \in 1..(w.split_ix - 1)}

\* The rows a worker leaves in its temp file: all of its chunk when it is
\* done, only the sub-batches before the failing one when it failed.
LeftIds(w) ==
    [p \in 1..Len(w.kw.indices) |->
        IF w.pc = "done" \/ p \in PositionsBefore(w) THEN w.kw.indices[p] ELSE 0]
LeftEmb(w) ==
    [p \in 1..Len(w.kw.indices) |->
        IF w.pc = "done" \/ p \in PositionsBefore(w)
        THEN EmbeddingOf(w.kw.indices[p]) ELSE 0]

\* C4 as stated: when do_embedding has returned and a worker failed in one
\* of its sub-batches, the output holds the rows of the chunks of the
\* succeeded workers, and nothing for the failed worker's chunk.
X4_FailedChunkMissingFromOutput ==
    (/\ pc = "done"
     /\ \A i \in Launched : workers[i].pc = "done" \/ FailedInBatch(workers[i])
     /\ \E i \in Launched : FailedInBatch(workers[i]))
        => out.ids = Concatenate([k \in 1..Len(h5_paths_temp) |->
                         IF workers[h5_paths_temp[k]].pc = "done"
                         THEN workers[h5_paths_temp[k]].kw.indices ELSE <<>>])

\* C4 amended: a worker that fails in one of its sub-batches has already
\* created its temp file with one zero row per id of its chunk, and the
\* file is concatenated like the others.  When do_embedding has returned
\* the output has len(indices) rows; at the failed worker's place the rows
\* of the sub-batches before the failing one hold their ids and embeddings,
\* the rows of the failing and the later sub-batches hold zeros.
C4_FailedChunkLeavesZeroRows ==
    (/\ pc = "done"
     /\ \A i \in Launched : workers[i].pc = "done" \/ FailedInBatch(workers[i])
     /\ \E i \in Launched : FailedInBatch(workers[i]))
        => /\ Len(out.ids) = Len(indices)
           /\ Len(out.emb) = Len(indices)
           /\ out.ids = Concatenate([k \in 1..Len(h5_paths_temp) |->
                                        LeftIds(workers[h5_paths_temp[k]])])
           /\ out.emb = Concatenate([k \in 1..Len(h5_paths_temp) |->
                                        LeftEmb(workers[h5_paths_temp[k]])])

\* The first worker failed in its second sub-batch, the second is done, and
\* do_embedding has returned.
W4_PartialChunkInOutput ==
    /\ pc = "done"
    /\ Len(h5_paths_temp) = 2
    /\ FailedInBatch(workers[1])
    /\ workers[1].split_ix = 2
    /\ workers[2].pc = "done"
    /\ out.ids[2] = 0

\* The rows of worker w's current sub-batch are still the zero fill.
BatchUnwritten(w, file) ==
    \A k \in 1..Len(PosIndices(w)) :
        file.emb[PosIndices(w)[k]] = 0 /\ file.ids[PosIndices(w)[k]] = 0

\* C5: a sub-batch goes on to the write of its ids only with the embedding
\* rows of exactly the requested ids written, in the requested order;
\* otherwise (the returned ids are not the requested ids, or no ids are
\* returned) the worker fails in that step with nothing written to any
\* file, the rows of the sub-batch still unwritten, and a failed worker
\* never takes another step.
C5_MismatchStopsWorker ==
    [][\A i \in 1..MaxProc :
          /\ (workers[i].pc = "populating" /\ workers'[i] # workers[i]) =>
                \/ /\ workers'[i].pc = "write_ids"
                   /\ workers'[i].split_ix = workers[i].split_ix
                   /\ \A k \in 1..Len(PosIndices(workers[i])) :
                         temp'[i].emb[PosIndices(workers[i])[k]] =
                             EmbeddingOf(BatchIndices(workers[i])[k])
                \/ /\ workers'[i].pc = "failed"
                   /\ workers'[i].err \in {"ValueError", "compute"}
                   /\ workers'[i].split_ix = workers[i].split_ix
                   /\ temp' = temp
                   /\ BatchUnwritten(workers[i], temp[i])
          /\ workers[i].pc = "failed" => workers'[i] = workers[i]
      ]_vars

\* A worker stopped by a ValueError in its second sub-batch.
W5_ValueErrorInSecondBatch ==
    \E i \in Launched :
        /\ workers[i].pc = "failed"
        /\ workers[i].err = "ValueError"
        /\ workers[i].split_ix = 2
        /\ temp[i].exists
        /\ BatchUnwritten(workers[i], temp[i])

\* C6: every sub-batch a worker hands to compute_database_embeddings has at
\* most min(n, batch_size_inference) ids, n the size of the worker's chunk.
X6_SubBatchWithinBatchSize ==
    \A i \in 1..MaxProc :
        workers[i].pc \in {"populating", "write_ids"} =>
            Len(BatchIndices(workers[i])) <=
                Min(Len(workers[i].kw.indices), batch_size_inference)

\* C7: with a `gpus` list whose length is not n_processes the constructor
\* raises: do_embedding never starts, no worker exists, no file is created
\* or changed; with gpus None or of length n_processes it does not raise.
C7_GpusLengthChecked ==
    /\ (gpus.given /\ Len(gpus.list) # n_processes) =>
          /\ pc \in {"new", "ctor_failed"}
          /\ \A i \in 1..MaxProc : workers[i] = NoWorker
          /\ out = NoFile
          /\ temp \in InitialTemps
    /\ (~gpus.given \/ Len(gpus.list) = n_processes) => pc # "ctor_failed"

\* The constructor raised on a list that is one entry too long.
W7_ConstructorRaised ==
    /\ pc = "ctor_failed"
    /\ gpus.given
    /\ Len(gpus.list) = n_processes + 1

\* C8: a worker that finds a file at its temp path fails in that step,
\* with FileExistsError once its model is loaded, and no file is created or
\* written; the worker never reaches the creation of its datasets.
C8_ExistingTempFileUntouched ==
    [][\A i \in 1..MaxProc :
          (workers[i].pc = "started" /\ temp[i].exists /\ workers'[i] # workers[i]) =>
              /\ workers'[i].pc = "failed"
              /\ workers'[i].err \in {"FileExistsError", "load"}
              /\ workers'[i].err = "load" <=> workers'[i].device = "none"
              /\ temp' = temp
              /\ out' = out
      ]_vars

\* A worker failed with FileExistsError and the stale file is as it was.
W8_FileExistsError ==
    \E i \in Launched :
        /\ workers[i].pc = "failed"
        /\ workers[i].err = "FileExistsError"
        /\ temp[i] = StaleFile

\* C9: once H5.concatenate has returned, every worker temp file is deleted
\* when delete_temp is true; when it is false every one still exists, and
\* no step of the concatenation changed any temp file.
C9_TempFilesAfterConcatenation ==
    /\ [](pc = "done" =>
            \A i \in Launched : temp[i].exists <=> ~delete_temp)
    /\ [][(pc = "concat" /\ ~delete_temp) => temp' = temp]_vars

\* do_embedding returned with delete_temp false and two temp files kept.
W9_TempFilesKept ==
    /\ pc = "done"
    /\ ~delete_temp
    /\ Len(h5_paths_temp) = 2
    /\ \A i \in Launched : temp[i].exists /\ Len(temp[i].ids) >= 1

\* C10: with n retrieved sentences and batch size b, model.embed_many is
\* called ceil(n/b) times when the loop is over, never on an empty batch,
\* every call but the last on exactly b sentences, the last on
\* n - b*(ceil(n/b)-1), and the calls are the consecutive slices of the
\* retrieved rows.
C10_BatchesOfEmbedMany ==
    LET n == Len(cde.sentences)
        b == cde.batch_size
        calls == cde.st.calls
    IN  /\ cde.pc \in {"loop", "returned", "raised"} =>
              /\ \A k \in 1..Len(calls) : Len(calls[k]) >= 1
              /\ Concatenate(calls) =
                     [k \in 1..Min(n, cde.batch_ix * b) |-> Text(cde.sentences[k])]
        /\ cde.pc \in {"returned", "raised"} =>
              /\ Len(calls) = Ceil(n, b)
              /\ \A k \in 1..(Len(calls) - 1) : Len(calls[k]) = b
              /\ Len(calls) >= 1 => Len(calls[Len(calls)]) = n - b * (Ceil(n, b) - 1)

\* Five sentences with batch size two: batches of 2, 2 and 1.
W10_ThreeBatches ==
    /\ cde.pc = "returned"
    /\ Len(cde.sentences) = 5
    /\ cde.batch_size = 2
    /\ Len(cde.st.calls) = 3
    /\ Len(cde.st.calls[3]) = 1

\* C11: the two returned arrays have one row per retrieved sentence, the
\* ids array lists the sentence ids in the order the store returned them,
\* and row k of the embeddings is the embedding of the text of the sentence
\* whose id is at position k, for every batch size.
C11_ReturnedArraysAligned ==
    cde.pc = "returned" =>
        /\ Len(cde.result.final_embeddings) = Len(cde.sentences)
        /\ Len(cde.result.retrieved_indices) = Len(cde.sentences)
        /\ cde.result.retrieved_indices = cde.sentences
        /\ \A k \in 1..Len(cde.sentences) :
              cde.result.final_embeddings[k] = 100 + Text(cde.sentences[k])

\* Three of four requested sentences returned, not in the requested
\* order, and embedded in two batches.
W11_TwoBatchesOutOfOrder ==
    /\ cde.pc = "returned"
    /\ cde.indices = <<1, 2, 3, 4>>
    /\ cde.sentences = <<4, 1, 3>>
    /\ cde.batch_size = 2

\* C12: whatever the number k of requested ids the store holds,
\* 0 <= k <= len(indices), the call raises nothing and returns two arrays
\* of exactly k rows.
X12_AbsentIdsSkippedSilently ==
    cde.pc \in {"returned", "raised"} =>
        /\ cde.pc = "returned"
        /\ Len(cde.result.final_embeddings) = Len(cde.sentences)
        /\ Len(cde.result.retrieved_indices) = Len(cde.sentences)

\* The contents of the frame a later get_extracted_table would copy.
StoredContent(w) ==
    IF w.table_extractions = 0 THEN EmptyDataFrame
    ELSE w.heap[w.table_extractions]

\* The requests posted by the step from w to v.
NewRequests(w, v) == SubSeq(v.http, Len(w.http) + 1, Len(v.http))

\* The objects displayed in the output area, in order.
Displayed(items) == SelectSeq(items, LAMBDA item : item.kind = "display")

\* C13: every run of textmining_pipeline on a list posts exactly one
\* request, to <server>/database with the JSON body {"identifiers": list};
\* on a string exactly one, to <server>/text with the JSON body
\* {"text": string, "debug": debug}; on any other type it raises TypeError
\* and posts nothing.  Earlier requests are never altered.
C13_OnePostPerCall ==
    [][(widget'.ops = widget.ops + 1
        /\ widget'.last.information.type \in {"list", "str", "other"}) =>
          LET l == widget'.last
              new == NewRequests(widget, widget')
          IN  /\ SubSeq(widget'.http, 1, Len(widget.http)) = widget.http
              /\ l.information.type = "list" =>
                    /\ ~l.raised
                    /\ new = <<[url |-> <<widget.mining_server_url,
                                          "/database">>,
                                keys |-> {"identifiers"},
                                identifiers |-> l.information.identifiers,
                                text |-> "", debug |-> FALSE]>>
              /\ l.information.type = "str" =>
                    /\ ~l.raised
                    /\ new = <<[url |-> <<widget.mining_server_url,
                                          "/text">>,
                                keys |-> {"text", "debug"},
                                identifiers |-> <<>>,
                                text |-> l.information.text,
                                debug |-> l.debug]>>
              /\ l.information.type = "other" =>
                    /\ l.raised
                    /\ new = <<>>]_vars

\* A string sent with debug=True after a list, then a value of another
\* type refused.
W13_ListThenStringThenOther ==
    /\ widget.pc = "idle"
    /\ widget.last.op = "textmining_pipeline"
    /\ widget.last.raised
    /\ Len(widget.http) = 2
    /\ widget.http[1].keys = {"identifiers"}
    /\ widget.http[2].keys = {"text", "debug"}
    /\ widget.http[2].debug

\* C14: on a widget without an article saver every click of "mine selected
\* articles" posts no request, leaves in the output area exactly the line
\* 'No article saver was provided. Nothing to mine.', raises nothing, and
\* leaves the stored table and every frame as they were.
C14_NoSaverNothingMined ==
    [][(widget'.ops = widget.ops + 1
        /\ widget'.last.op = "mine_articles"
        /\ ~widget.article_saver.given) =>
          /\ widget'.http = widget.http
          /\ widget'.out = <<[kind |-> "print",
                 text |-> "No article saver was provided. Nothing to mine.",
                 ref |-> 0]>>
          /\ ~widget'.last.raised
          /\ widget'.table_extractions = widget.table_extractions
          /\ widget'.heap = widget.heap]_vars

\* A click without a saver on a widget that already stores a table mined
\* from its text area.
W14_ClickWithoutSaverAfterMining ==
    /\ widget.pc = "idle"
    /\ ~widget.article_saver.given
    /\ widget.last.op = "mine_articles"
    /\ widget.table_extractions # 0
    /\ Len(widget.http) = 1
    /\ Len(widget.out) = 1

\* C15: after a click of "mine this text", or of "mine selected articles"
\* on a widget with an article saver, the output area shows exactly three
\* displayed objects: the schema table, the warnings, the extraction table.
X15_ThreeObjectsDisplayed ==
    (/\ widget.pc = "idle"
     /\ \/ widget.last.op = "mine_text"
        \/ widget.last.op = "mine_articles" /\ widget.article_saver.given) =>
        LET shown == Displayed(widget.out)
        IN  /\ Len(shown) = 3
            /\ shown[1].text = "schema"
            /\ shown[2].text = "warnings"
            /\ shown[3].text = "table_extractions"

\* C16: textmining_pipeline returns the table of the response when the
\* response is a text/csv body and when it is a JSON body with the CSV
\* under csv_extractions; for any other response it prints the headers
\* and the body, returns None and raises nothing.
X16_TableFromCsvOrJson ==
    (/\ widget.pc = "idle"
     /\ widget.last.op = "textmining_pipeline"
     /\ widget.last.information.type \in {"list", "str"}) =>
        LET l == widget.last
            response == l.response
        IN  IF \/ response.format = "json"
               \/ response.format = "csv"
                  /\ response.content_type = "text/csv"
            THEN /\ ~l.raised
                 /\ l.returned # 0
                 /\ widget.heap[l.returned] = response.table
            ELSE /\ ~l.raised
                 /\ l.returned = 0
                 /\ l.printed = <<"Response content type is not text/csv.",
                                  "response.headers", "response.text">>

\* C17: get_extracted_table returns a new frame, empty when no table is
\* stored and otherwise equal to the stored one; the call changes nothing
\* of the widget and no existing frame; and a change made to the returned
\* frame leaves what later calls copy as it was.
C17_DefensiveCopy ==
    [][/\ (widget'.ops = widget.ops + 1
           /\ widget'.last.op = "get_extracted_table") =>
             /\ widget' = [widget EXCEPT !.heap = widget'.heap,
                                         !.held = widget'.held,
                                         !.ops = widget'.ops,
                                         !.last = widget'.last]
             /\ SubSeq(widget'.heap, 1, Len(widget.heap)) = widget.heap
             /\ widget'.last.returned = Len(widget.heap) + 1
             /\ Len(widget'.heap) = Len(widget.heap) + 1
             /\ widget'.heap[widget'.last.returned] = StoredContent(widget)
             /\ StoredContent(widget') = StoredContent(widget)
       /\ (widget'.ops = widget.ops + 1 /\ widget'.last.op = "mutate") =>
             StoredContent(widget') = StoredContent(widget)]_vars

\* The user changed the copy of a stored table; the stored one differs
\* from it now.
W17_CopyMutated ==
    /\ widget.pc = "idle"
    /\ widget.last.op = "mutate"
    /\ widget.table_extractions # 0
    /\ widget.held # 0
    /\ widget.held # widget.table_extractions
    /\ widget.heap[widget.held] = widget.heap[widget.table_extractions] + 10

\* C18: for a name outside the seven recognized ones get_embedding_model
\* raises ValueError and no constructor is ever called; for a recognized
\* name it returns after calling exactly one constructor, the one of that
\* name, which receives checkpoint_path only for SentTransformer,
\* Sent2VecModel, BSV and SklearnVectorizer and device only for the four
\* transformer names.
C18_OneConstructorOrValueError ==
    /\ gem.model_name_or_class \notin
           {"SentTransformer", "BioBERT NLI+STS", "SBioBERT", "SBERT",
            "Sent2VecModel", "BSV", "SklearnVectorizer"} =>
          /\ gem.pc \in {"call", "ValueError"}
          /\ gem.constructed = <<>>
    /\ gem.model_name_or_class \in
           {"SentTransformer", "BioBERT NLI+STS", "SBioBERT", "SBERT",
            "Sent2VecModel", "BSV", "SklearnVectorizer"} =>
          /\ gem.pc \in {"call", "found", "returned"}
          /\ gem.pc # "returned" => gem.constructed = <<>>
          /\ gem.pc = "returned" =>
                LET name == gem.model_name_or_class
                    call == gem.constructed[1]
                IN  /\ Len(gem.constructed) = 1
                    /\ call.cls =
                          IF name \in {"BioBERT NLI+STS", "SBERT"}
                          THEN "SentTransformer" ELSE name
                    /\ call.path =
                          CASE name = "BioBERT NLI+STS" ->
                                   "clagator/biobert_v1.1_pubmed_nli_sts"
                            [] name = "SBERT" -> "bert-base-nli-mean-tokens"
                            [] name = "SBioBERT" -> "-"
                            [] OTHER -> gem.checkpoint_path
                    /\ call.device =
                          IF name \in {"SentTransformer", "BioBERT NLI+STS",
                                       "SBioBERT", "SBERT"}
                          THEN gem.device ELSE "-"

\* SBERT asked for with a checkpoint path that it does not use.
W18_SbertIgnoresCheckpoint ==
    /\ gem.pc = "returned"
    /\ gem.model_name_or_class = "SBERT"
    /\ gem.checkpoint_path = "model.bin"
    /\ gem.device = "cuda"
    /\ Len(gem.constructed) = 1

\* The source records under the input path, over all its files.
SourceRecords == Flatten(cli.input_path.files)

\* A finished run of `parse cord19-json` on a directory, into an output
\* path that was absent or empty.
Cord19DirectoryParsed ==
    /\ cli.pc = "done"
    /\ cli.input_type = "cord19-json"
    /\ cli.input_path.kind = "dir"

C20_InvalidChoiceExitsFirst ==
    (cli.input_type \notin {"cord19-json", "pmc-xml", "pubmed-xml",
                            "pubmed-xml-set"}
     /\ cli.pc # "args") =>
        /\ cli.pc = "exit"
        /\ cli.exit_code = 2
        /\ cli.message = [text |-> "invalid choice",
                          value |-> cli.input_type]
        /\ cli.reads = 0
        /\ cli.writes = 0
        /\ cli.out_dir = cli.out_dir0

\* The run of the test: an unknown type, an input path that does not
\* exist and an output path that does not exist either.
W20_WrongTypeMissingInput ==
    /\ cli.pc = "exit"
    /\ cli.input_type = "wrong-type"
    /\ cli.input_path.kind = "missing"
    /\ ~cli.out_dir.exists

\* A run of `parse pubmed-xml-set` on one file, once the parsers are
\* known.
PubmedSetFileRead ==
    /\ cli.pc \in {"write", "done"}
    /\ cli.input_type = "pubmed-xml-set"
    /\ cli.input_path.kind = "file"

C23_BothModesInOneObject ==
    ner.pc = "written" =>
        LET objects == ner.output_file.objects
            d == objects[1]
            At(key) == CHOOSE i \in 1..Len(d) : d[i].key = key
        IN  /\ Len(objects) = 1
            /\ Len(d) = Len(ner.report[1]) + Len(ner.report[2])
            /\ \A i, j \in 1..Len(d) : i # j => d[i].key # d[j].key
            /\ \A m \in 1..2 : \A n \in 1..Len(ner.report[m]) :
                  LET key == <<Modes[m], "_">> \o ner.report[m][n].key
                  IN  /\ \E i \in 1..Len(d) : d[i].key = key
                      /\ d[At(key)].value = ner.report[m][n].value
            /\ \A n \in 1..Len(ner.report[1]) :
                  /\ \E i \in 1..Len(d) :
                        d[i].key = <<"entity", "_">> \o ner.report[1][n].key
                  /\ \E i \in 1..Len(d) :
                        d[i].key = <<"token", "_">> \o ner.report[1][n].key
            /\ \A i, j \in 1..Len(d) :
                  (d[i].key[1] = "entity" /\ d[j].key[1] = "token") => i < j

\* Two metrics, reported in a different order and with different values
\* by the two modes, written over an earlier output file.
W23_FourKeysWritten ==
    /\ ner.pc = "written"
    /\ Len(ner.report[1]) = 2
    /\ ner.report[1][1].key # ner.report[2][1].key
    /\ ner.report[1][1].value # ner.report[2][2].value
    /\ Len(ner.output_file.objects[1]) = 4

\* The workers do_embedding has started so far.
Started == {i \in 1..MaxProc : workers[i].pc # "none"}

\* C24: the worker started for chunk i gets the temp file
\* <stem>_temp<i>.h5, no two workers get the same one, a step of a worker
\* creates or writes no file but that worker's own, under every
\* interleaving, and the list handed to H5.concatenate names the temp
\* files in worker index order.
C24_OneTempFilePerWorker ==
    [][/\ \A i \in Started : workers[i].kw.temp_h5_path = i
       /\ \A i, j \in Started :
             i # j => workers[i].kw.temp_h5_path # workers[j].kw.temp_h5_path
       /\ h5_paths_temp = [k \in 1..Len(h5_paths_temp) |->
                              workers[k].kw.temp_h5_path]
       /\ \A k \in 1..(Len(h5_paths_temp) - 1) :
             h5_paths_temp[k] < h5_paths_temp[k + 1]
       /\ workers' # workers /\ pc' = pc =>
             \A f \in 1..MaxProc :
                temp'[f] # temp[f] =>
                   /\ workers'[f] # workers[f]
                   /\ workers[f].kw.temp_h5_path = f
                   /\ \A j \in Started \ {f} :
                         /\ workers'[j] = workers[j]
                         /\ workers[j].kw.temp_h5_path # f]_vars

\* Two workers that ran interleaved are both done, each with its file.
W24_TwoWorkersTwoFiles ==
    /\ pc = "join"
    /\ Len(h5_paths_temp) = 2
    /\ workers[1].pc = "done"
    /\ workers[2].pc = "done"
    /\ temp[1].exists /\ temp[2].exists
    /\ temp[1].ids = splits[1]
    /\ temp[2].ids = splits[2]
    /\ Len(splits[1]) = 2

\* C28: worker i is handed gpus[i], or None when gpus is None.  Once it
\* is past the selection of the device, CUDA_VISIBLE_DEVICES holds its gpu
\* id if that is not None and is otherwise as it was (unset, in this
\* model); and it loads the model on "cuda" exactly when its gpu is not
\* None, on "cpu" otherwise.
C28_GpuOfOwnIndex ==
    \A i \in 1..MaxProc :
        LET w == workers[i]
        IN  w.pc # "none" =>
              /\ w.kw.gpu = IF gpus.given THEN gpus.list[i] ELSE <<>>
              /\ w.pc = "started" =>
                    w.cuda_visible_devices = <<>> /\ w.device = "none"
              /\ w.pc # "started" =>
                    /\ w.kw.gpu # <<>> => w.cuda_visible_devices = w.kw.gpu
                    /\ w.kw.gpu = <<>> => w.cuda_visible_devices = <<>>
                    /\ w.err # "load" => w.device \in {"cpu", "cuda"}
                    /\ w.device # "none" =>
                          (w.device = "cuda" <=> w.kw.gpu # <<>>)

\* Two workers past their setup: the first on device 0, the second, whose
\* entry is None, on the CPU.
W28_Gpu0AndCpu ==
    /\ gpus.given
    /\ gpus.list = <<<<0>>, <<>>>>
    /\ workers[1].pc = "populating"
    /\ workers[1].cuda_visible_devices = <<0>>
    /\ workers[1].device = "cuda"
    /\ workers[2].pc = "populating"
    /\ workers[2].cuda_visible_devices = <<>>
    /\ workers[2].device = "cpu"

\* The workers whose temp file is the one they created, still in place.
Populated ==
    {i \in 1..MaxProc :
        /\ workers[i].pc \in {"populating", "write_ids", "done", "failed"}
        /\ workers[i].err \notin {"load", "FileExistsError"}
        /\ temp[workers[i].kw.temp_h5_path].exists}

\* The positions of a dataset that hold a written row (no id and no
\* embedding is 0).
Written(rows) == {p \in 1..Len(rows) : rows[p] # 0}

\* C25: in a worker's temp file the id rows of a sub-batch are written
\* when its embedding rows already are, and each sub-batch lies after all
\* rows written before; so at every moment, after a failure too, the
\* positions with id rows are a prefix of the chunk and are among the
\* positions with embedding rows.
C25_IdsAfterEmbeddingsInOrder ==
    [][\A i \in Populated :
          LET f == workers[i].kw.temp_h5_path
              ids == Written(temp[f].ids)
              emb == Written(temp[f].emb)
          IN  /\ ids = 1..Cardinality(ids)
              /\ emb = 1..Cardinality(emb)
              /\ ids \subseteq emb
              /\ temp'[f].exists =>
                    /\ \A p \in Written(temp'[f].ids) \ ids : p \in emb
                    /\ \A p \in Written(temp'[f].emb) \ emb :
                          \A q \in emb : q < p
                    /\ Written(temp'[f].ids) \subseteq Written(temp'[f].emb)
                    /\ Written(temp'[f].ids)
                           = 1..Cardinality(Written(temp'[f].ids))]_vars

\* A worker failed in its second sub-batch: the first is written in full,
\* the second not at all.
W25_FailedAfterFirstSubBatch ==
    /\ workers[1].pc = "failed"
    /\ workers[1].err = "ValueError"
    /\ Len(workers[1].kw.indices) = 4
    /\ Written(temp[1].ids) = {1, 2}
    /\ Written(temp[1].emb) = {1, 2}

\* C26: the sub-batches of a worker are non-empty ranges of consecutive
\* positions which, one after the other, make up 0..n-1 exactly; every
\* position is in one sub-batch only, and in the temp file of a worker that
\* finished id row p holds chunk[p] and embedding row p its embedding.
C26_SubBatchesPartitionChunk ==
    \A i \in 1..MaxProc :
        LET w == workers[i]
            n == Len(w.kw.indices)
            sp == WorkerSplits(n, w.kw.batch_size)
            f == temp[w.kw.temp_h5_path]
        IN  w.pc # "none" =>
              /\ \A k \in 1..Len(sp) :
                    /\ Len(sp[k]) > 0
                    /\ \A m \in 1..(Len(sp[k]) - 1) : sp[k][m + 1] = sp[k][m] + 1
              /\ Len(sp) > 0
              /\ sp[1][1] = 1
              /\ sp[Len(sp)][Len(sp[Len(sp)])] = n
              /\ \A k \in 1..(Len(sp) - 1) :
                    sp[k + 1][1] = sp[k][Len(sp[k])] + 1
              /\ \A p \in 1..n :
                    Cardinality({k \in 1..Len(sp) :
                                    \E m \in 1..Len(sp[k]) : sp[k][m] = p}) = 1
              /\ (w.pc = "done" /\ f.exists) =>
                    /\ f.ids = w.kw.indices
                    /\ f.emb = [p \in 1..n |-> 100 + (w.kw.indices[p] + 10)]

\* One worker finished a chunk of four in two sub-batches of two.
W26_TwoSubBatchesDone ==
    /\ workers[1].pc = "done"
    /\ Len(workers[1].kw.indices) = 4
    /\ workers[1].kw.batch_size = 2
    /\ workers[1].split_ix = 2
    /\ temp[1].ids = workers[1].kw.indices

====
